---- MODULE Spec2Model ----
(***************************************************************************)
(* Model of viuer's block printer (src/src/printer/block.rs):              *)
(* BlockPrinter::print, fill_out_buffer, print_buffer and the colour       *)
(* helpers.  One render call is a state machine: cursor positioning, one   *)
(* step per pixel of the row-major pixel iterator, and the code after the  *)
(* loop.  The image is read-only input; its pixels are drawn when the      *)
(* iterator yields them.  out_buffer is the termcolor Buffer, held as the  *)
(* sequence of terminal operations written into it.                        *)
(***************************************************************************)
EXTENDS Integers, Sequences, FiniteSets, TLC

(* ------------------------------ bounds --------------------------------- *)
\* images have at most MaxPixels pixels (width * height <= MaxPixels)
MaxPixels == 6
\* config.y ranges over -MaxY .. MaxY
MaxY == 1
\* config.x ranges over 0 .. MaxX
MaxX == 1

(* ----------------------------- constants ------------------------------- *)
UPPER_HALF_BLOCK == "U+2580"
LOWER_HALF_BLOCK == "U+2584"
NoGlyph == ""
CHECKERBOARD_BACKGROUND_LIGHT == <<153, 153, 153>>
CHECKERBOARD_BACKGROUND_DARK == <<102, 102, 102>>

(* ------------------------------ colours -------------------------------- *)
\* Option<Color>: None, Color::Rgb(r,g,b), Color::Ansi256(i)
None == <<"None", 0, 0, 0>>
ColorRgb(r, g, b) == <<"Rgb", r, g, b>>
ColorAnsi256(i) == <<"Ansi256", i, 0, 0>>

\* nearest level of the 6x6x6 colour cube (levels 0,95,135,175,215,255)
CubeLevel(v) == IF v < 48 THEN 0 ELSE IF v < 115 THEN 1 ELSE (v - 35) \div 40

\* nearest step of the 24-step grey ramp (8, 18, ..., 238), as palette index
GreyIndex(v) ==
    IF v < 4 THEN 16
    ELSE IF v > 246 THEN 231
    ELSE LET s == (v - 3) \div 10
         IN 232 + (IF s > 23 THEN 23 ELSE s)

\* ansi_colours::ansi256_from_rgb: quantization of an RGB triplet to the
\* 256-colour palette (greys to the grey ramp, other colours to the cube)
ansi256_from_rgb(rgb) ==
    IF rgb[1] = rgb[2] /\ rgb[2] = rgb[3]
    THEN GreyIndex(rgb[1])
    ELSE 16 + 36 * CubeLevel(rgb[1]) + 6 * CubeLevel(rgb[2]) + CubeLevel(rgb[3])

\* faulty variant of is_pixel_transparent: only alpha 255 is opaque
is_pixel_transparent_NotOpaque(pixel) == pixel[4] < 255

\* a pixel is <<r, g, b, a>>
is_pixel_transparent(pixel) == pixel[4] = 0

\* faulty variant of get_transparency_color: the two tones are exchanged
get_transparency_color_TonesSwapped(row, col, truecolor) ==
    LET rgb == IF row % 2 = col % 2
               THEN CHECKERBOARD_BACKGROUND_LIGHT
               ELSE CHECKERBOARD_BACKGROUND_DARK
    IN IF truecolor THEN ColorRgb(rgb[1], rgb[2], rgb[3])
       ELSE ColorAnsi256(ansi256_from_rgb(rgb))

get_transparency_color(row, col, truecolor) ==
    LET rgb == IF row % 2 = col % 2
               THEN CHECKERBOARD_BACKGROUND_DARK
               ELSE CHECKERBOARD_BACKGROUND_LIGHT
    IN IF truecolor THEN ColorRgb(rgb[1], rgb[2], rgb[3])
       ELSE ColorAnsi256(ansi256_from_rgb(rgb))

get_color_from_pixel(pixel, truecolor) ==
    LET rgb == <<pixel[1], pixel[2], pixel[3]>>
    IN IF truecolor THEN ColorRgb(rgb[1], rgb[2], rgb[3])
       ELSE ColorAnsi256(ansi256_from_rgb(rgb))

\* faulty variant of PixelColor: config.transparent is not consulted
PixelColor_NoPassThrough(pixel, row, col, cfg) ==
    IF is_pixel_transparent(pixel)
    THEN get_transparency_color(row, col, cfg.truecolor)
    ELSE get_color_from_pixel(pixel, cfg.truecolor)

\* the colour of one pixel of the main pass (print, lines 81-93); row and
\* col are the counters curr_row_px and curr_col_px
PixelColor(pixel, row, col, cfg) ==
    IF is_pixel_transparent(pixel)
    THEN IF cfg.transparent THEN None
         ELSE get_transparency_color(row, col, cfg.truecolor)
    ELSE get_color_from_pixel(pixel, cfg.truecolor)

(* ------------------------- terminal operations ------------------------- *)
\* what the code writes into out_buffer, one record per write
Op(op, n, m, fg, bg, g) == [op |-> op, n |-> n, m |-> m, fg |-> fg, bg |-> bg, g |-> g]
MoveTo(col, row) == Op("MoveTo", col, row, None, None, NoGlyph)
MoveToPreviousLine(n) == Op("MoveToPreviousLine", n, 0, None, None, NoGlyph)
MoveRight(n) == Op("MoveRight", n, 0, None, None, NoGlyph)
Newline == Op("Newline", 0, 0, None, None, NoGlyph)
SetColor(fg, bg) == Op("SetColor", 0, 0, fg, bg, NoGlyph)
Glyph(g) == Op("Glyph", 0, 0, None, None, g)
Reset == Op("Reset", 0, 0, None, None, NoGlyph)

\* the cast "as u16" of a signed integer (lines 37, 46)
U16 == 65536
AsU16(v) == v % U16

RECURSIVE Newlines(_)
\* for _ in 0..config.y { writeln!(out_buffer) }
Newlines(n) == IF n <= 0 THEN <<>> ELSE <<Newline>> \o Newlines(n - 1)

(* -------------------------- cursor positioning -------------------------- *)
\* faulty variant of ConfigValid: the sign test is off by one
ConfigValid_OffByOne(cfg) == ~(cfg.absolute_offset /\ cfg.y < -1)

\* the configuration check of print (lines 34-43): absolute offset with a
\* negative y is rejected
ConfigValid(cfg) == ~(cfg.absolute_offset /\ cfg.y < 0)

\* faulty variant of PositionOps: the arguments of MoveTo are exchanged
PositionOps_Swapped(cfg) ==
    IF cfg.absolute_offset
    THEN <<MoveTo(AsU16(cfg.y), 0)>>
    ELSE IF cfg.y < 0
         THEN <<MoveToPreviousLine(AsU16(-cfg.y))>>
         ELSE Newlines(cfg.y)

\* what the "adjust y offset" block writes into out_buffer (lines 34-54)
PositionOps(cfg) ==
    IF cfg.absolute_offset
    THEN <<MoveTo(0, AsU16(cfg.y))>>
    ELSE IF cfg.y < 0
         THEN <<MoveToPreviousLine(AsU16(-cfg.y))>>
         ELSE Newlines(cfg.y)

\* faulty variant of OffsetOps: the test of x is missing
OffsetOps_Unconditional(cfg) == <<MoveRight(cfg.x)>>

\* "move right if x offset is specified" (lines 119-122)
OffsetOps(cfg) == IF cfg.x > 0 THEN <<MoveRight(cfg.x)>> ELSE <<>>

(* --------------------------- fill_out_buffer --------------------------- *)
\* ColorSpec::new() with set_bg(color); the fields top, bot, topT and botT
\* are bookkeeping: the grid coordinates of the pixels that set bg and fg,
\* and whether those pixels had alpha 0
NoPx == <<-1, -1>>
NewCell(color, at, alpha0) ==
    [bg |-> color, fg |-> None, top |-> at, bot |-> NoPx,
     topT |-> alpha0, botT |-> FALSE]

\* faulty variant of CellOps: foreground and background exchanged when both
\* halves have a colour
CellOps_FgBgSwapped(c, is_last_row) ==
    IF is_last_row
    THEN IF c.bg # None
         THEN <<SetColor(c.bg, None), Glyph(UPPER_HALF_BLOCK)>>
         ELSE <<MoveRight(1)>>
    ELSE IF c.fg = None /\ c.bg = None THEN <<MoveRight(1)>>
         ELSE IF c.bg = None
              THEN <<SetColor(c.fg, None), Glyph(LOWER_HALF_BLOCK)>>
         ELSE IF c.fg = None
              THEN <<SetColor(c.bg, None), Glyph(UPPER_HALF_BLOCK)>>
         ELSE <<SetColor(c.bg, c.fg), Glyph(LOWER_HALF_BLOCK)>>

\* the body of the loop of fill_out_buffer for one ColorSpec (lines 219-262)
CellOps(c, is_last_row) ==
    IF is_last_row
    THEN IF c.bg # None
         THEN <<SetColor(c.bg, None), Glyph(UPPER_HALF_BLOCK)>>
         ELSE <<MoveRight(1)>>
    ELSE IF c.fg = None /\ c.bg = None THEN <<MoveRight(1)>>
         ELSE IF c.bg = None
              THEN <<SetColor(c.fg, None), Glyph(LOWER_HALF_BLOCK)>>
         ELSE IF c.fg = None
              THEN <<SetColor(c.bg, None), Glyph(UPPER_HALF_BLOCK)>>
         ELSE <<SetColor(c.fg, c.bg), Glyph(LOWER_HALF_BLOCK)>>

RECURSIVE RowCells(_, _)
\* for c in row_buffer.iter() { ... }
RowCells(rb, is_last_row) ==
    IF rb = <<>> THEN <<>>
    ELSE CellOps(Head(rb), is_last_row) \o RowCells(Tail(rb), is_last_row)

\* what fill_out_buffer writes into out_buffer: the cells, then
\* out_buffer.reset() and writeln!(out_buffer) (lines 219-265)
fill_out_buffer(rb, is_last_row) == RowCells(rb, is_last_row) \o <<Reset, Newline>>

\* faulty variant of ClearRow: the row buffer is not cleared
ClearRow_Kept(rb) == rb

\* row_buffer.clear() at the end of fill_out_buffer (line 266)
ClearRow(rb) == <<>>

(* ----------------------------- print_buffer ---------------------------- *)
\* what stdout.print(out_buffer) can report (line 195): an empty buffer is
\* not handed to the sink; a write to the sink succeeds, fails with
\* ErrorKind::BrokenPipe, or fails with another kind of I/O error
SinkOutcomes(buf) == IF buf = <<>> THEN {"Empty"} ELSE {"Ok", "BrokenPipe", "Other"}

\* faulty variant of print_buffer: a broken pipe is reported like any other error
print_buffer_PipeIsError(buf, outcome) ==
    IF outcome \in {"Ok", "Empty"} THEN [res |-> "Ok", buf |-> <<>>]
    ELSE [res |-> "IO", buf |-> buf]

\* faulty variant of print_buffer: every error is ignored
print_buffer_AllIgnored(buf, outcome) ==
    IF outcome \in {"Ok", "Empty"} THEN [res |-> "Ok", buf |-> <<>>]
    ELSE [res |-> "Ok", buf |-> buf]

\* print_buffer (lines 194-207): its result and out_buffer afterwards
print_buffer(buf, outcome) ==
    IF outcome \in {"Ok", "Empty"} THEN [res |-> "Ok", buf |-> <<>>]
    ELSE IF outcome = "BrokenPipe" THEN [res |-> "Ok", buf |-> buf]
    ELSE [res |-> "IO", buf |-> buf]

(* --------------------------- the main pass ----------------------------- *)
\* faulty variant of BufferFull: one entry too many
BufferFull_OneMore(rb, width) == Len(rb) = width + 1
\* "if the buffer is full" (line 108)
BufferFull(rb, width) == Len(rb) = width
\* faulty variant of SecondRowDone: the column test is missing
SecondRowDone_Always(col, width) == TRUE
\* "only if the second row is completed" (line 115)
SecondRowDone(col, width) == col = width
\* faulty variant of NeedsLastRow: the last-row pass is unconditional
NeedsLastRow_Always(rb) == TRUE
\* "buffer will be flushed if the image has an odd height" (line 138)
NeedsLastRow(rb) == rb # <<>>

(* ------------------------------- state --------------------------------- *)
VARIABLES
    config,       \* the Config of this render call
    img,          \* dimensions of the image: [width, height]
    pc,           \* "start", "loop" or "done"
    result,       \* "none" while running, then "Ok", "InvalidConfiguration", "IO" or "Panic"
    out_buffer,   \* operations written and not yet cleared
    row_buffer,   \* Vec<ColorSpec>
    mode,         \* Mode::Top or Mode::Bottom
    curr_col_px,
    curr_row_px,
    idx,          \* number of pixels the iterator has yielded
    flushLog,     \* one entry per call of print_buffer
    lastChunk,    \* the buffer the latest step passed to print_buffer
    lastFill,     \* the fill_out_buffer call of the latest step, if any
    lastPx,       \* the pixel of the latest step and its colour
    converted,    \* the cells fill_out_buffer has converted so far
    posOut,       \* what the cursor positioning block wrote
    emitted,      \* counts of the operations written into out_buffer
    passes,       \* counts of fill_out_buffer calls: [full, last]
    rs,           \* one call of resize: its arguments and its result
    cl,           \* one colour resolution: the pixel, its position, the colour
    sw            \* a StringWriter and the history of the calls made on it

vars == <<config, img, pc, result, out_buffer, row_buffer, mode, curr_col_px,
          curr_row_px, idx, flushLog, lastChunk, lastFill, lastPx, converted,
          posOut, emitted, passes, rs, cl, sw>>

\* the values of rs, cl and sw while they are not in use
NoResize == [pc |-> "idle", img |-> <<0, 0>>, width |-> <<FALSE, 0>>,
             height |-> <<FALSE, 0>>, term |-> <<0, 0>>, out |-> <<0, 0>>]
NoColour == [pc |-> "idle", pixel |-> <<0, 0, 0, 0>>, row |-> 0, col |-> 0,
             truecolor |-> FALSE, transparent |-> FALSE, color |-> <<"None", 0, 0, 0>>,
             prevValid |-> FALSE, prevPixel |-> <<0, 0, 0, 0>>,
             prevColor |-> <<"None", 0, 0, 0>>]
NoWriter == [pc |-> "idle", buf |-> <<>>, inner |-> <<>>, written |-> <<>>,
             ret |-> <<>>, atRead |-> <<>>, calls |-> 0, reads |-> 0]

\* the pixel values the iterator can yield: opaque, half-opaque, and alpha 0
\* with two different RGB values
PixelValues == {<<200, 0, 0, 255>>, <<200, 0, 0, 128>>, <<0, 0, 0, 0>>, <<200, 0, 0, 0>>}

Configs ==
    [absolute_offset : BOOLEAN, y : (-MaxY) .. MaxY, x : 0 .. MaxX,
     transparent : BOOLEAN, truecolor : BOOLEAN]

Images ==
    {[width |-> w, height |-> h] : <<w, h>> \in
        {d \in (0 .. MaxPixels) \X (0 .. MaxPixels) : d[1] * d[2] <= MaxPixels}}

NoFill == [valid |-> FALSE, last |-> FALSE, rb |-> <<>>, pre |-> <<>>, ops |-> <<>>]
NoPixel == [valid |-> FALSE, p |-> <<0, 0, 0, 0>>, x |-> 0, y |-> 0, color |-> None]

\* number of cursor positioning operations (MoveTo, MoveToPreviousLine) in ops
RECURSIVE CountPos(_)
CountPos(ops) ==
    IF ops = <<>> THEN 0
    ELSE (IF Head(ops).op \in {"MoveTo", "MoveToPreviousLine"} THEN 1 ELSE 0)
         + CountPos(Tail(ops))

\* emitted after ops have been written into out_buffer
Written(ops) ==
    [pos |-> emitted.pos + CountPos(ops), total |-> emitted.total + Len(ops)]

\* the conversion events of one fill_out_buffer call, the k-th of the render
Conversions(rb, is_last_row, k) ==
    {[c |-> j - 1, r |-> k - 1, top |-> rb[j].top, bot |-> rb[j].bot,
      last |-> is_last_row] : j \in 1 .. Len(rb)}

\* the record of one print_buffer call, after `at` pixels
FlushEntry(kind, outcome, buf, at) ==
    [kind |-> kind, outcome |-> outcome, idx |-> at, len |-> Len(buf)]

\* the state at entry of print (lines 30-31, 68-75)
Init ==
    /\ config \in Configs
    /\ img \in Images
    /\ pc = "start"
    /\ result = "none"
    /\ out_buffer = <<>>
    /\ row_buffer = <<>>
    /\ mode = "Top"
    /\ curr_col_px = 0
    /\ curr_row_px = 0
    /\ idx = 0
    /\ flushLog = <<>>
    /\ lastChunk = <<>>
    /\ lastFill = NoFill
    /\ lastPx = NoPixel
    /\ converted = {}
    /\ posOut = <<>>
    /\ emitted = [pos |-> 0, total |-> 0]
    /\ passes = [full |-> 0, last |-> 0]
    /\ rs = NoResize
    /\ cl = NoColour
    /\ sw = NoWriter

\* "adjust y offset" (lines 33-54)
Position ==
    /\ pc = "start"
    /\ IF ConfigValid(config)
       THEN /\ out_buffer' = out_buffer \o PositionOps(config)
            /\ posOut' = PositionOps(config)
            /\ emitted' = Written(PositionOps(config))
            /\ pc' = "loop"
            /\ result' = result
       ELSE /\ pc' = "done"
            /\ result' = "InvalidConfiguration"
            /\ UNCHANGED <<out_buffer, posOut, emitted>>
    /\ UNCHANGED <<config, img, row_buffer, mode, curr_col_px, curr_row_px, idx,
                   flushLog, lastChunk, lastFill, lastPx, converted, passes>>
    /\ UNCHANGED <<rs, cl, sw>>

\* one iteration of "for pixel in img.pixels()" (lines 78-135)
Pixel ==
    /\ pc = "loop"
    /\ idx < img.width * img.height
    /\ \E p \in PixelValues :
        LET at == <<idx % img.width, idx \div img.width>>
            color == PixelColor(p, curr_row_px, curr_col_px, config)
            alpha0 == is_pixel_transparent(p)
            inBounds == mode = "Top" \/ curr_col_px + 1 <= Len(row_buffer)
            rb1 == IF mode = "Top"
                   THEN Append(row_buffer, NewCell(color, at, alpha0))
                   ELSE IF inBounds
                        THEN [row_buffer EXCEPT ![curr_col_px + 1].fg = color,
                                                ![curr_col_px + 1].bot = at,
                                                ![curr_col_px + 1].botT = alpha0]
                        ELSE row_buffer
            col1 == curr_col_px + 1
            full == BufferFull(rb1, img.width)
            pre == OffsetOps(config)
            ops == fill_out_buffer(rb1, FALSE)
            buf1 == out_buffer \o pre \o ops
        IN /\ idx' = idx + 1
           /\ lastPx' = [valid |-> TRUE, p |-> p, x |-> at[1], y |-> at[2], color |-> color]
           /\ UNCHANGED <<config, img, posOut, rs, cl, sw>>
           /\ IF ~inBounds
              THEN \* row_buffer[curr_col_px] out of bounds
                   /\ pc' = "done"
                   /\ result' = "Panic"
                   /\ lastChunk' = <<>>
                   /\ lastFill' = NoFill
                   /\ UNCHANGED <<out_buffer, row_buffer, mode, curr_col_px, curr_row_px,
                                  flushLog, converted, emitted, passes>>
              ELSE IF full /\ mode = "Top"
              THEN /\ row_buffer' = rb1
                   /\ mode' = "Bottom"
                   /\ curr_col_px' = 0
                   /\ curr_row_px' = curr_row_px + 1
                   /\ lastChunk' = <<>>
                   /\ lastFill' = NoFill
                   /\ UNCHANGED <<pc, result, out_buffer, flushLog, converted, emitted, passes>>
              ELSE IF full /\ SecondRowDone(col1, img.width)
              THEN \E o \in SinkOutcomes(buf1) :
                   LET r == print_buffer(buf1, o)
                   IN /\ curr_col_px' = 0
                      /\ curr_row_px' = curr_row_px + 1
                      /\ row_buffer' = ClearRow(rb1)
                      /\ out_buffer' = r.buf
                      /\ emitted' = Written(pre \o ops)
                      /\ passes' = [passes EXCEPT !.full = @ + 1]
                      /\ converted' = converted \cup
                             Conversions(rb1, FALSE, passes.full + passes.last + 1)
                      /\ lastFill' = [valid |-> TRUE, last |-> FALSE, rb |-> rb1,
                                      pre |-> pre, ops |-> ops]
                      /\ lastChunk' = buf1
                      /\ flushLog' = Append(flushLog, FlushEntry("row", o, buf1, idx + 1))
                      /\ IF r.res = "Ok"
                         THEN /\ mode' = "Top"
                              /\ UNCHANGED <<pc, result>>
                         ELSE /\ pc' = "done"
                              /\ result' = r.res
                              /\ mode' = mode
              ELSE /\ row_buffer' = rb1
                   /\ curr_col_px' = col1
                   /\ lastChunk' = <<>>
                   /\ lastFill' = NoFill
                   /\ UNCHANGED <<pc, result, out_buffer, mode, curr_row_px, flushLog,
                                  converted, emitted, passes>>

\* the code after the loop (lines 137-143)
Finish ==
    /\ pc = "loop"
    /\ idx = img.width * img.height
    /\ LET need == NeedsLastRow(row_buffer)
           ops == IF need THEN fill_out_buffer(row_buffer, TRUE) ELSE <<>>
           buf1 == out_buffer \o ops
       IN \E o \in SinkOutcomes(buf1) :
          LET r == print_buffer(buf1, o)
          IN /\ row_buffer' = IF need THEN ClearRow(row_buffer) ELSE row_buffer
             /\ out_buffer' = r.buf
             /\ emitted' = Written(ops)
             /\ passes' = IF need THEN [passes EXCEPT !.last = @ + 1] ELSE passes
             /\ converted' = IF need
                             THEN converted \cup
                                  Conversions(row_buffer, TRUE, passes.full + passes.last + 1)
                             ELSE converted
             /\ lastFill' = IF need
                            THEN [valid |-> TRUE, last |-> TRUE, rb |-> row_buffer,
                                  pre |-> <<>>, ops |-> ops]
                            ELSE NoFill
             /\ lastChunk' = buf1
             /\ flushLog' = Append(flushLog, FlushEntry("final", o, buf1, idx))
             /\ pc' = "done"
             /\ result' = r.res
    /\ UNCHANGED <<config, img, mode, curr_col_px, curr_row_px, idx, lastPx, posOut>>
    /\ UNCHANGED <<rs, cl, sw>>

Next == Position \/ Pixel \/ Finish

Spec == Init /\ [][Next]_vars

\* the render variables while no render is running (the other
\* specifications leave them alone)
renderVars == <<config, img, pc, result, out_buffer, row_buffer, mode, curr_col_px,
                curr_row_px, idx, flushLog, lastChunk, lastFill, lastPx, converted,
                posOut, emitted, passes>>
NoRender ==
    /\ config = [absolute_offset |-> FALSE, y |-> 0, x |-> 0,
                 transparent |-> FALSE, truecolor |-> FALSE]
    /\ img = [width |-> 0, height |-> 0]
    /\ pc = "idle"
    /\ result = "none"
    /\ out_buffer = <<>>
    /\ row_buffer = <<>>
    /\ mode = "Top"
    /\ curr_col_px = 0
    /\ curr_row_px = 0
    /\ idx = 0
    /\ flushLog = <<>>
    /\ lastChunk = <<>>
    /\ lastFill = NoFill
    /\ lastPx = NoPixel
    /\ converted = {}
    /\ posOut = <<>>
    /\ emitted = [pos |-> 0, total |-> 0]
    /\ passes = [full |-> 0, last |-> 0]

(* ======================= properties of the render ====================== *)
\* helpers of the properties below
Width == img.width
Height == img.height
HasOutcome(o) == \E i \in 1 .. Len(flushLog) : flushLog[i].outcome = o
FailureFree == \A i \in 1 .. Len(flushLog) : flushLog[i].outcome \in {"Ok", "Empty"}
RowFlushes == {i \in 1 .. Len(flushLog) : flushLog[i].kind = "row"}
SinkWrites == {i \in 1 .. Len(flushLog) : flushLog[i].outcome # "Empty"}
AfterLoop == flushLog # <<>> /\ flushLog[Len(flushLog)].kind = "final"
IsPrefix(a, b) == Len(a) <= Len(b) /\ SubSeq(b, 1, Len(a)) = a

\* C1: a render with absolute_offset = true and y < 0 returns
\* InvalidConfiguration, and before it returns nothing has been written into
\* the output buffer or handed to the sink and no pixel has been processed.
C1_InvalidConfigurationNoOutput ==
    (config.absolute_offset /\ config.y < 0 /\ pc # "start")
    => /\ pc = "done"
       /\ result = "InvalidConfiguration"
       /\ out_buffer = <<>>
       /\ emitted.total = 0
       /\ flushLog = <<>>
       /\ lastChunk = <<>>
       /\ converted = {}
       /\ idx = 0

C1_Witness ==
    /\ config.absolute_offset /\ config.y < 0
    /\ Width * Height > 0
    /\ pc = "done"
    /\ result = "InvalidConfiguration"

\* C2 as stated: if some flush of a finished render reported a broken pipe,
\* the render returned success, whatever the other flushes reported.
C2_AsStated == (pc = "done" /\ HasOutcome("BrokenPipe")) => result = "Ok"

\* C2 (amended): a broken pipe on a flush is never itself returned as an
\* error: after it the render goes on (per-row flush) or returns success
\* (final flush); a finished render in which a flush reported a broken pipe
\* returned success unless a flush failed with another I/O error, and then it
\* returned that IO error.
C2_BrokenPipeSwallowed ==
    /\ (pc = "done" /\ HasOutcome("BrokenPipe"))
       => /\ result \in {"Ok", "IO"}
          /\ result = "Ok" <=> ~HasOutcome("Other")
    /\ \A i \in 1 .. Len(flushLog) :
          (flushLog[i].outcome = "BrokenPipe" /\ i = Len(flushLog))
          => IF flushLog[i].kind = "row"
             THEN pc = "loop" /\ result = "none"
             ELSE pc = "done" /\ result = "Ok"

C2_Witness ==
    /\ pc = "done"
    /\ result = "Ok"
    /\ \E i \in RowFlushes : flushLog[i].outcome = "BrokenPipe"
    /\ flushLog[Len(flushLog)].outcome = "BrokenPipe"

\* C3: a flush that fails with an I/O error other than broken pipe ends the
\* render at once with an IO error: it is the last flush of the render (no
\* retry, no later flush), no further pixel is processed and nothing more is
\* written.
C3_OtherErrorEndsRender ==
    \A i \in 1 .. Len(flushLog) :
        flushLog[i].outcome = "Other"
        => /\ i = Len(flushLog)
           /\ pc = "done"
           /\ result = "IO"
           /\ idx = flushLog[i].idx
           /\ out_buffer = lastChunk
           /\ ~ENABLED Next

C3_Witness ==
    /\ HasOutcome("Other")
    /\ result = "IO"
    /\ idx < Width * Height
    /\ flushLog[Len(flushLog)].kind = "row"

\* the terminal cells of the grid: column c, terminal row r
GridCells == {<<c, r>> \in (0 .. Width - 1) \X (0 .. (Height + 1) \div 2 - 1) : TRUE}

\* C4: every conversion of a cell to output is the only conversion of that
\* cell; a cell of a complete row pair is converted with its background set
\* by pixel (c, 2r) and its foreground set by pixel (c, 2r+1), never in
\* last-row mode; a cell with only its top half is converted only as part of
\* the final row of an odd-height image; a render that runs to completion
\* has converted every cell of the grid.
C4_EachCellOnceAndComplete ==
    /\ \A e \in converted :
          /\ <<e.c, e.r>> \in GridCells
          /\ e.top = <<e.c, 2 * e.r>>
          /\ Cardinality({f \in converted : f.top = e.top}) = 1
          /\ IF 2 * e.r + 1 < Height
             THEN e.bot = <<e.c, 2 * e.r + 1>> /\ ~e.last
             ELSE /\ e.bot = NoPx
                  /\ e.last
                  /\ Height % 2 = 1
                  /\ e.r = (Height - 1) \div 2
    /\ (pc = "done" /\ result = "Ok")
       => \A cell \in GridCells :
             \E e \in converted : e.c = cell[1] /\ e.r = cell[2]

C4_Witness ==
    /\ pc = "done"
    /\ result = "Ok"
    /\ Width = 2
    /\ Height = 3
    /\ Cardinality(converted) = 4

\* C5 as stated: in a failure-free render of a W x H grid (W >= 1) the sink
\* is written once per complete terminal row, at the end of that row, plus
\* once more at the end if and only if H is odd.
C5_AsStated ==
    (pc = "done" /\ result = "Ok" /\ FailureFree /\ Width >= 1)
    => /\ Cardinality(SinkWrites) = Height \div 2 + (IF Height % 2 = 1 THEN 1 ELSE 0)
       /\ \A i \in RowFlushes : flushLog[i].idx = 2 * Width * i
       /\ flushLog[Len(flushLog)].outcome = "Ok" <=> Height % 2 = 1

\* C5 (amended): in a failure-free render of a W x H grid (W >= 1) the sink
\* receives exactly one write per complete terminal row, each in the step
\* that finalizes the last cell of that row and never in the middle of a
\* row; print_buffer is called once more after the loop in every render, and
\* that call hands the sink a write if and only if H is odd, or H = 0 and
\* the cursor positioning wrote something; otherwise its buffer is empty.
C5_FlushPerRow ==
    (FailureFree /\ Width >= 1 /\ result \in {"none", "Ok"})
    => /\ \A i \in RowFlushes :
             /\ flushLog[i].idx = 2 * Width * i
             /\ flushLog[i].outcome = "Ok"
       /\ Cardinality(RowFlushes) = idx \div (2 * Width)
       /\ pc = "done"
          => /\ idx = Width * Height
             /\ Len(flushLog) = Height \div 2 + 1
             /\ flushLog[Len(flushLog)].kind = "final"
             /\ flushLog[Len(flushLog)].outcome = "Ok"
                   <=> \/ Height % 2 = 1
                       \/ Height = 0 /\ posOut # <<>>
             /\ Cardinality(SinkWrites) =
                   Height \div 2
                   + (IF Height % 2 = 1 \/ (Height = 0 /\ posOut # <<>>) THEN 1 ELSE 0)

C5_Witness ==
    /\ pc = "done"
    /\ result = "Ok"
    /\ FailureFree
    /\ Width = 2
    /\ Height = 3
    /\ Cardinality(SinkWrites) = 2

\* the operations of ops up to its Reset, split into cells: a cursor move
\* is a cell of its own, a SetColor forms a cell with the glyph after it
RECURSIVE CellsOf(_)
CellsOf(ops) ==
    IF ops = <<>> \/ Head(ops).op = "Reset" THEN <<>>
    ELSE IF Head(ops).op = "SetColor" /\ Len(ops) >= 2
         THEN <<SubSeq(ops, 1, 2)>> \o CellsOf(SubSeq(ops, 3, Len(ops)))
         ELSE <<(<<Head(ops)>>)>> \o CellsOf(Tail(ops))

\* the output of a cell of a complete row pair with top colour T and bottom
\* colour B, as the glyph policy states it
ExpectedCell(T, B) ==
    IF T = None /\ B = None THEN <<MoveRight(1)>>
    ELSE IF T = None
         THEN <<[op |-> "SetColor", n |-> 0, m |-> 0, fg |-> B, bg |-> None, g |-> ""],
                Glyph(LOWER_HALF_BLOCK)>>
    ELSE IF B = None
         THEN <<[op |-> "SetColor", n |-> 0, m |-> 0, fg |-> T, bg |-> None, g |-> ""],
                Glyph(UPPER_HALF_BLOCK)>>
    ELSE <<[op |-> "SetColor", n |-> 0, m |-> 0, fg |-> B, bg |-> T, g |-> ""],
           Glyph(LOWER_HALF_BLOCK)>>

\* C6: the pixel (c, 2r) sets the background T of cell (c, r) and the pixel
\* (c, 2r+1) sets its foreground B; when a complete row pair is converted,
\* each of its W cells is written as: T and B absent -> cursor right one
\* column, nothing else; T absent -> foreground B, no background, lower half
\* block; B absent -> foreground T, no background, upper half block; both
\* present -> foreground B, background T, lower half block.
C6_CellPolicy ==
    /\ (lastPx.valid /\ pc = "loop" /\ ~lastFill.valid)
       => /\ lastPx.x + 1 <= Len(row_buffer)
          /\ IF lastPx.y % 2 = 0
             THEN /\ row_buffer[lastPx.x + 1].bg = lastPx.color
                  /\ row_buffer[lastPx.x + 1].fg = None
                  /\ row_buffer[lastPx.x + 1].top = <<lastPx.x, lastPx.y>>
             ELSE /\ row_buffer[lastPx.x + 1].fg = lastPx.color
                  /\ row_buffer[lastPx.x + 1].bot = <<lastPx.x, lastPx.y>>
    /\ (lastFill.valid /\ ~lastFill.last)
       => LET cells == CellsOf(lastFill.ops)
              r == passes.full - 1
          IN /\ lastPx.y = 2 * r + 1
             /\ lastFill.rb[lastPx.x + 1].fg = lastPx.color
             /\ Len(lastFill.rb) = Width
             /\ Len(cells) = Width
             /\ \A j \in 1 .. Len(cells) :
                   /\ lastFill.rb[j].top = <<j - 1, 2 * r>>
                   /\ lastFill.rb[j].bot = <<j - 1, 2 * r + 1>>
                   /\ cells[j] = ExpectedCell(lastFill.rb[j].bg, lastFill.rb[j].fg)

C6_Witness ==
    /\ lastFill.valid /\ ~lastFill.last
    /\ \E j \in 1 .. Len(lastFill.rb) : lastFill.rb[j].bg # None /\ lastFill.rb[j].fg # None
    /\ \E j \in 1 .. Len(lastFill.rb) : lastFill.rb[j].bg = None /\ lastFill.rb[j].fg # None
    /\ \E j \in 1 .. Len(lastFill.rb) : lastFill.rb[j].bg # None /\ lastFill.rb[j].fg = None

\* the checks of C7 on a last-row pass: it converts the cells of the final
\* pixel row only, a cell with a colour as the upper half block with that
\* colour as foreground, a cell without one as a cursor move right by one,
\* and writes no lower half block
LastRowPassOk ==
    (lastFill.valid /\ lastFill.last)
    => LET cells == CellsOf(lastFill.ops)
       IN /\ Len(lastFill.rb) = Width
          /\ Len(cells) = Width
          /\ \A j \in 1 .. Len(cells) :
                /\ lastFill.rb[j].top = <<j - 1, Height - 1>>
                /\ lastFill.rb[j].bot = NoPx
                /\ cells[j] = IF lastFill.rb[j].bg # None
                              THEN <<[op |-> "SetColor", n |-> 0, m |-> 0,
                                      fg |-> lastFill.rb[j].bg, bg |-> None, g |-> ""],
                                     Glyph(UPPER_HALF_BLOCK)>>
                              ELSE <<MoveRight(1)>>
          /\ \A k \in 1 .. Len(lastFill.ops) : lastFill.ops[k].g # LOWER_HALF_BLOCK

\* C7 as stated: a render that reaches the code after the loop makes exactly
\* one last-row pass if the grid has an odd number of pixel rows and none if
\* it has an even number; the pass is as LastRowPassOk says.
C7_AsStated ==
    /\ AfterLoop => passes.last = (IF Height % 2 = 1 THEN 1 ELSE 0)
    /\ Height % 2 = 0 => passes.last = 0
    /\ LastRowPassOk

\* C7 (amended): a render that reaches the code after the loop makes exactly
\* one last-row pass if the grid has an odd number of pixel rows and at least
\* one column, and none otherwise (even height, or width 0); no pass happens
\* before the loop has ended; the pass is as LastRowPassOk says.
C7_LastRowPass ==
    /\ AfterLoop => passes.last = (IF Height % 2 = 1 /\ Width >= 1 THEN 1 ELSE 0)
    /\ ~AfterLoop => passes.last = 0
    /\ Height % 2 = 0 => passes.last = 0
    /\ LastRowPassOk

C7_Witness ==
    /\ pc = "done"
    /\ result = "Ok"
    /\ Height = 3
    /\ Width = 2
    /\ passes = [full |-> 1, last |-> 1]
    /\ lastFill.valid /\ lastFill.last
    /\ lastFill.rb[1].bg = None
    /\ lastFill.rb[2].bg # None

\* C8 as stated: with transparent = true, a pixel with alpha 0 leaves its
\* half of the cell without colour and the cell is output as a cursor move
\* right by one column, with no glyph.
C8_AsStated ==
    (lastFill.valid /\ config.transparent)
    => LET cells == CellsOf(lastFill.ops)
       IN \A j \in 1 .. Len(lastFill.rb) :
             (lastFill.rb[j].topT \/ lastFill.rb[j].botT)
             => cells[j] = <<MoveRight(1)>>

\* C8 (amended): with transparent = true, a pixel with alpha 0 gets no
\* colour, so its half of the cell has none.  The cell is output as a cursor
\* move right by one column and no glyph when its other half has no colour
\* either or it is a cell of the last-row pass; otherwise it is output as the
\* half block of the other half (lower for a transparent top, upper for a
\* transparent bottom) with the other pixel's colour as foreground and no
\* background.
C8_TransparentHalf ==
    /\ (lastPx.valid /\ config.transparent /\ lastPx.p[4] = 0) => lastPx.color = None
    /\ (lastFill.valid /\ config.transparent)
       => LET cells == CellsOf(lastFill.ops)
          IN \A j \in 1 .. Len(lastFill.rb) :
                LET c == lastFill.rb[j]
                IN /\ c.topT => c.bg = None
                   /\ c.botT => c.fg = None
                   /\ (c.topT \/ c.botT)
                      => cells[j] =
                            IF c.bg = None /\ c.fg = None
                            THEN <<MoveRight(1)>>
                            ELSE IF c.topT
                            THEN <<[op |-> "SetColor", n |-> 0, m |-> 0,
                                    fg |-> c.fg, bg |-> None, g |-> ""],
                                   Glyph(LOWER_HALF_BLOCK)>>
                            ELSE <<[op |-> "SetColor", n |-> 0, m |-> 0,
                                    fg |-> c.bg, bg |-> None, g |-> ""],
                                   Glyph(UPPER_HALF_BLOCK)>>

C8_Witness ==
    /\ config.transparent
    /\ lastFill.valid /\ ~lastFill.last
    /\ \E j \in 1 .. Len(lastFill.rb) : lastFill.rb[j].topT /\ ~lastFill.rb[j].botT
    /\ \E j \in 1 .. Len(lastFill.rb) : lastFill.rb[j].topT /\ lastFill.rb[j].botT

\* one of the two checkerboard tones as a colour, by grey value
Tone(v, truecolor) ==
    IF truecolor THEN <<"Rgb", v, v, v>>
    ELSE <<"Ansi256", ansi256_from_rgb(<<v, v, v>>), 0, 0>>

\* C9: with transparent = false, the colour of a pixel with alpha 0 at grid
\* position (col, row) is the dark tone (102,102,102) when row and col have
\* the same parity and the light tone (153,153,153) otherwise, as RGB with
\* truecolor and quantized to the palette without; the pixel's own RGB has
\* no influence.
C9_Checkerboard ==
    (lastPx.valid /\ ~config.transparent /\ lastPx.p[4] = 0)
    => lastPx.color = IF lastPx.y % 2 = lastPx.x % 2
                      THEN Tone(102, config.truecolor)
                      ELSE Tone(153, config.truecolor)

C9_Witness ==
    /\ lastPx.valid /\ ~config.transparent /\ ~config.truecolor
    /\ lastPx.p = <<200, 0, 0, 0>>
    /\ lastPx.x = 1
    /\ lastPx.y = 2

\* the positioning output the claim C10 states for a configuration
ExpectedPosition(cfg) ==
    IF cfg.absolute_offset
    THEN <<[op |-> "MoveTo", n |-> 0, m |-> cfg.y, fg |-> None, bg |-> None, g |-> ""]>>
    ELSE IF cfg.y < 0
         THEN <<[op |-> "MoveToPreviousLine", n |-> 0 - cfg.y, m |-> 0,
                 fg |-> None, bg |-> None, g |-> ""]>>
         ELSE [i \in 1 .. cfg.y |-> Newline]

\* C10: cursor positioning is written exactly once per render and before
\* any cell output: absolute mode with y >= 0 writes one move to row y,
\* column 0; relative mode with y < 0 one move up by |y| lines; relative mode
\* with y >= 0 exactly y newlines and no cursor move (nothing when y = 0).
\* No other positioning operation is written during the render, and the
\* positioning output heads the output buffer until its first flush.
C10_PositionOnceFirst ==
    /\ pc = "start" => emitted.total = 0 /\ converted = {} /\ out_buffer = <<>>
    /\ (pc # "start" /\ result # "InvalidConfiguration")
       => /\ posOut = ExpectedPosition(config)
          /\ emitted.pos = (IF config.absolute_offset \/ config.y < 0 THEN 1 ELSE 0)
          /\ emitted.total >= Len(posOut)
          /\ (\A i \in 1 .. Len(flushLog) : flushLog[i].outcome \notin {"Ok", "Empty"})
             => IsPrefix(posOut, out_buffer)
          /\ (Len(flushLog) = 1 /\ lastChunk # <<>>) => IsPrefix(posOut, lastChunk)

C10_Witness ==
    /\ pc = "done"
    /\ result = "Ok"
    /\ ~config.absolute_offset
    /\ config.y > 0
    /\ converted # {}
    /\ posOut = <<Newline>>

\* helpers of the properties below
IsSuffix(a, b) == Len(a) <= Len(b) /\ SubSeq(b, Len(b) - Len(a) + 1, Len(b)) = a
\* the operations of ops that stand for one terminal cell each
CellMarks(ops) == {i \in 1 .. Len(ops) : ops[i].op \in {"Glyph", "MoveRight"}}
AfterRowFlush == lastFill.valid /\ ~lastFill.last

\* C16: for a complete row pair, the operations are: one cursor-right by x
\* if and only if x > 0, then the W cells of the row in column order (cell
\* j made of the pixels of column j of the two rows of the pair), then
\* Reset and a line break, then the flush that hands these operations to the
\* sink; a render that goes on is then in Top mode with an empty row buffer;
\* the row pairs are flushed top to bottom.
C16_RowOrder ==
    AfterRowFlush
    => LET ops == lastFill.ops
           n == Len(ops)
           r == passes.full - 1
       IN /\ lastFill.pre = (IF config.x > 0 THEN <<MoveRight(config.x)>> ELSE <<>>)
          /\ Len(lastFill.rb) = Width
          /\ \A j \in 1 .. Width :
                /\ lastFill.rb[j].top = <<j - 1, 2 * r>>
                /\ lastFill.rb[j].bot = <<j - 1, 2 * r + 1>>
          /\ n >= 2 /\ ops[n - 1] = Reset /\ ops[n] = Newline
          /\ \A i \in 1 .. n - 2 : ops[i].op \in {"SetColor", "Glyph", "MoveRight"}
          /\ Cardinality(CellMarks(SubSeq(ops, 1, n - 2))) = Width
          /\ IsSuffix(lastFill.pre \o ops, lastChunk)
          /\ flushLog # <<>>
          /\ flushLog[Len(flushLog)].kind = "row"
          /\ flushLog[Len(flushLog)].idx = 2 * Width * passes.full
          /\ Cardinality(RowFlushes) = passes.full
          /\ \A i \in RowFlushes : \A k \in RowFlushes :
                i < k => flushLog[i].idx < flushLog[k].idx
          /\ row_buffer = <<>>
          /\ pc = "loop" => (mode = "Top" /\ curr_col_px = 0)

C16_Witness ==
    /\ AfterRowFlush
    /\ pc = "loop"
    /\ config.x > 0
    /\ Width = 2
    /\ passes.full = 1
    /\ mode = "Top"
    /\ row_buffer = <<>>

\* C17 as stated: when x > 0, the final row of an odd-height image is
\* preceded in the output by a cursor-right of x columns.
C17_AsStated ==
    (lastFill.valid /\ lastFill.last /\ config.x > 0)
    => LET k == Len(lastChunk) - Len(lastFill.ops)
       IN /\ k >= 1
          /\ lastChunk[k] = MoveRight(config.x)

\* C18: while pixels remain, the next pixel is the one at column
\* curr_col_px of row curr_row_px, the mode is Top iff that row is even, and
\* the row buffer holds curr_col_px entries in Top mode and W entries in
\* Bottom mode; the index into the row buffer is never out of bounds and the
\* row buffer is never longer than W.
C18_LoopInvariant ==
    /\ (pc = "loop" /\ idx < Width * Height)
       => /\ curr_col_px = idx % Width
          /\ curr_row_px = idx \div Width
          /\ mode = "Top" <=> curr_row_px % 2 = 0
          /\ Len(row_buffer) = (IF mode = "Top" THEN curr_col_px ELSE Width)
          /\ mode = "Bottom" => curr_col_px + 1 <= Len(row_buffer)
    /\ result # "Panic"
    /\ Width >= 1 => Len(row_buffer) <= Width

C18_Witness ==
    /\ pc = "loop"
    /\ Width = 2
    /\ mode = "Bottom"
    /\ curr_row_px = 1
    /\ curr_col_px = 1
    /\ Len(row_buffer) = 2
    /\ idx = 3

\* C19 as stated: after every row flush that lets the render go on the
\* output buffer is empty, and every flush after the first hands to the sink
\* exactly the operations written since the flush before it.
C19_AsStated ==
    /\ (AfterRowFlush /\ pc = "loop") => out_buffer = <<>>
    /\ (Len(flushLog) >= 2 /\ (lastFill.valid \/ AfterLoop))
       => lastChunk = lastFill.pre \o lastFill.ops

(* ================================ resize =============================== *)
\* bounds of the resize inputs: source sides 1 .. MaxSrc, terminal sides
\* 1 .. MaxTerm, target sides 0 .. MaxTarget (plus the sizes of the tests)
MaxSrc == 5
MaxTerm == 4
MaxTarget == 4

\* utils.rs: the terminal size used when the query fails (and in the tests)
DEFAULT_TERM_SIZE == <<80, 24>>

\* Option<u32>: None and Some(n)
NoDim == <<FALSE, 0>>
SomeDim(n) == <<TRUE, n>>

\* "2 * h" in u32, for h below 2^31 (the product of a larger h does not
\* fit in u32; the heights of this model are far below)
Mul2(h) == 2 * h

\* faulty variant of resize_dimensions: the larger of the two ratios is used
resize_dimensions_Fill(width, height, nwidth, nheight) ==
    LET ratio == width * nheight
        nratio == nwidth * height
        use_width == nratio > ratio
        quotient == IF use_width THEN (height * nwidth) \div width
                    ELSE (width * nheight) \div height
        intermediate == IF quotient < 1 THEN 1 ELSE quotient
    IN IF use_width THEN <<nwidth, intermediate>> ELSE <<intermediate, nheight>>

\* image::DynamicImage::thumbnail computes the size of its result with the
\* image crate's resize_dimensions(width, height, nwidth, nheight, false):
\* the largest size of the source's aspect ratio within nwidth x nheight, the
\* scaled side by truncating integer division and at least 1
resize_dimensions(width, height, nwidth, nheight) ==
    LET ratio == width * nheight
        nratio == nwidth * height
        use_width == nratio <= ratio
        quotient == IF use_width THEN (height * nwidth) \div width
                    ELSE (width * nheight) \div height
        intermediate == IF quotient < 1 THEN 1 ELSE quotient
    IN IF use_width THEN <<nwidth, intermediate>> ELSE <<intermediate, nheight>>

\* the dimensions of img.thumbnail(nwidth, nheight) (lines 180, 184)
thumbnail(dims, nwidth, nheight) == resize_dimensions(dims[1], dims[2], nwidth, nheight)

\* the dimensions of img.thumbnail_exact(nwidth, nheight) (line 188)
thumbnail_exact(dims, nwidth, nheight) == <<nwidth, nheight>>

\* faulty variant of TargetDims: the target height is not doubled
TargetDims_NotDoubled(dims, width, height) ==
    <<IF width[1] THEN width[2] ELSE dims[1],
      IF height[1] THEN height[2] ELSE dims[2]>>

\* print_width and print_height after lines 157-165
TargetDims(dims, width, height) ==
    <<IF width[1] THEN width[2] ELSE dims[1],
      IF height[1] THEN Mul2(height[2]) ELSE dims[2]>>

\* faulty variant of CapToTerminal: the width is not capped
CapToTerminal_WidthFree(print, term) ==
    LET w == term[1]
        h == AsU16(term[2] - 1)
    IN <<print[1],
         IF print[2] > h THEN Mul2(h) ELSE print[2]>>

\* print_width and print_height after lines 168-179, for the terminal size
\* term = (term_w, term_h)
CapToTerminal(print, term) ==
    LET w == term[1]
        h == AsU16(term[2] - 1)
    IN <<IF print[1] > w THEN w ELSE print[1],
         IF print[2] > h THEN Mul2(h) ELSE print[2]>>

\* faulty variant of resize: thumbnail is used when both sides are given
resize_NeverExact(dims, width, height, term) ==
    LET print == TargetDims(dims, width, height)
    IN IF ~width[1] /\ ~height[1]
       THEN LET capped == CapToTerminal(print, term)
            IN thumbnail(dims, capped[1], capped[2])
       ELSE thumbnail(dims, print[1], print[2])

\* resize (lines 156-191): the dimensions of the image it returns, for an
\* image of dimensions dims and terminal_size() = term
resize(dims, width, height, term) ==
    LET print == TargetDims(dims, width, height)
    IN IF ~width[1] /\ ~height[1]
       THEN LET capped == CapToTerminal(print, term)
            IN thumbnail(dims, capped[1], capped[2])
       ELSE IF width[1] /\ height[1]
       THEN thumbnail_exact(dims, print[1], print[2])
       ELSE thumbnail(dims, print[1], print[2])

\* the inputs of one call of resize
SrcSizes == ((1 .. MaxSrc) \X (1 .. MaxSrc)) \cup {<<1000, 800>>, <<20, 10>>}
TermSizes == ((1 .. MaxTerm) \X (1 .. MaxTerm)) \cup {DEFAULT_TERM_SIZE}
TargetWidths == {NoDim} \cup {SomeDim(n) : n \in (0 .. MaxTarget) \cup {15, 100}}
TargetHeights == {NoDim} \cup {SomeDim(n) : n \in (0 .. MaxTarget) \cup {9, 90}}

InitResize ==
    /\ NoRender
    /\ cl = NoColour
    /\ sw = NoWriter
    /\ \E d \in SrcSizes, w \in TargetWidths, h \in TargetHeights, t \in TermSizes :
          rs = [pc |-> "call", img |-> d, width |-> w, height |-> h, term |-> t,
                out |-> <<0, 0>>]

\* the call resize(&img, width, height)
Resize ==
    /\ rs.pc = "call"
    /\ rs' = [rs EXCEPT !.pc = "ret",
                        !.out = resize(rs.img, rs.width, rs.height, rs.term)]
    /\ UNCHANGED <<cl, sw>>
    /\ UNCHANGED renderVars

NextResize == Resize

SpecResize == InitResize /\ [][NextResize]_vars

(* ------------------------- properties of resize ------------------------ *)
\* helpers of the properties below
Abs(n) == IF n < 0 THEN 0 - n ELSE n
FitsIn(d, bw, bh) == d[1] <= bw /\ d[2] <= bh
\* the aspect ratio of src is kept by out up to rounding: for one side of
\* out, the other side is within one pixel of the proportional value
AspectKept(src, out) ==
    \/ Abs(out[2] * src[1] - src[2] * out[1]) <= src[1]
    \/ Abs(out[1] * src[2] - src[1] * out[2]) <= src[2]
\* out is the size of the source's aspect ratio that fits within bw x bh:
\* within the bounds, touching one of them, the other side proportional
FitsTightly(src, out, bw, bh) ==
    /\ FitsIn(out, bw, bh)
    /\ out[1] = bw \/ out[2] = bh
    /\ AspectKept(src, out)
NoTarget == ~rs.width[1] /\ ~rs.height[1]
WidthOnly == rs.width[1] /\ ~rs.height[1]
HeightOnly == ~rs.width[1] /\ rs.height[1]
BothTargets == rs.width[1] /\ rs.height[1]

\* C11: without target width and height, the result of resize fits within
\* (terminal width, 2 x (terminal rows - 1)), keeps the source's aspect
\* ratio up to integer rounding, is never larger than the source, and is the
\* source size whenever the source fits within those bounds; 1000x800 at
\* 80x24 gives 57x46 and 20x10 gives 20x10.
C11_FitTerminal ==
    (rs.pc = "ret" /\ NoTarget)
    => LET bw == rs.term[1]
           bh == 2 * (rs.term[2] - 1)
       IN /\ FitsIn(rs.out, bw, bh)
          /\ AspectKept(rs.img, rs.out)
          /\ FitsIn(rs.out, rs.img[1], rs.img[2])
          /\ FitsIn(rs.img, bw, bh) => rs.out = rs.img
          /\ (rs.img = <<1000, 800>> /\ rs.term = <<80, 24>>) => rs.out = <<57, 46>>
          /\ (rs.img = <<20, 10>> /\ rs.term = <<80, 24>>) => rs.out = <<20, 10>>

C11_Witness ==
    /\ rs.pc = "ret" /\ NoTarget
    /\ rs.img = <<1000, 800>>
    /\ rs.term = <<80, 24>>
    /\ rs.out = <<57, 46>>

\* C12: with exactly one target side, the result of resize is the size of
\* the source's aspect ratio that fits within (target width, source height),
\* or within (source width, 2 x target height), and is never larger than
\* the source; the four sizes of the tests come out as stated.
C12_OneTargetFits ==
    (rs.pc = "ret" /\ (WidthOnly \/ HeightOnly))
    => LET bw == IF WidthOnly THEN rs.width[2] ELSE rs.img[1]
           bh == IF HeightOnly THEN 2 * rs.height[2] ELSE rs.img[2]
       IN /\ FitsTightly(rs.img, rs.out, bw, bh)
          /\ FitsIn(rs.out, rs.img[1], rs.img[2])
          /\ (rs.img = <<1000, 800>> /\ rs.width = SomeDim(100)) => rs.out = <<100, 80>>
          /\ (rs.img = <<20, 10>> /\ rs.width = SomeDim(100)) => rs.out = <<20, 10>>
          /\ (rs.img = <<1000, 800>> /\ rs.height = SomeDim(90)) => rs.out = <<225, 180>>
          /\ (rs.img = <<20, 10>> /\ rs.height = SomeDim(4)) => rs.out = <<16, 8>>

C12_Witness ==
    /\ rs.pc = "ret" /\ HeightOnly
    /\ rs.img = <<20, 10>>
    /\ rs.height = SomeDim(4)
    /\ rs.out = <<16, 8>>

\* C13 as stated: with exactly one target side the result always has the
\* target width, or twice the target height, whatever the source size.
C13_AsStated ==
    (rs.pc = "ret" /\ (WidthOnly \/ HeightOnly))
    => /\ WidthOnly => rs.out[1] = rs.width[2]
       /\ HeightOnly => rs.out[2] = 2 * rs.height[2]
       /\ AspectKept(rs.img, rs.out)

\* C13: with exactly one target side, the result has the target width (or
\* twice the target height) when that is not larger than the source's own
\* width (height), the other side scaled to the aspect ratio; a source
\* smaller than the target keeps its size.
C13_TargetOrSource ==
    (rs.pc = "ret" /\ (WidthOnly \/ HeightOnly))
    => /\ (WidthOnly /\ rs.width[2] <= rs.img[1]) => rs.out[1] = rs.width[2]
       /\ (WidthOnly /\ rs.width[2] > rs.img[1]) => rs.out = rs.img
       /\ (HeightOnly /\ 2 * rs.height[2] <= rs.img[2]) => rs.out[2] = 2 * rs.height[2]
       /\ (HeightOnly /\ 2 * rs.height[2] > rs.img[2]) => rs.out = rs.img
       /\ AspectKept(rs.img, rs.out)

C13_Witness ==
    /\ rs.pc = "ret" /\ WidthOnly
    /\ rs.img = <<20, 10>>
    /\ rs.width = SomeDim(100)
    /\ rs.out = rs.img

\* C14: with both target sides w and h, the result of resize is exactly
\* w x (2 x h) for every source size; width 15 and height 9 give 15x18.
C14_ExactTarget ==
    (rs.pc = "ret" /\ BothTargets)
    => /\ rs.out = <<rs.width[2], 2 * rs.height[2]>>
       /\ (rs.width = SomeDim(15) /\ rs.height = SomeDim(9)) => rs.out = <<15, 18>>

C14_Witness ==
    /\ rs.pc = "ret" /\ BothTargets
    /\ rs.img = <<1000, 800>>
    /\ rs.width = SomeDim(15)
    /\ rs.height = SomeDim(9)
    /\ rs.out = <<15, 18>>
    /\ ~AspectKept(rs.img, rs.out)

(* ========================== colour resolution ========================== *)
\* bound: pixel positions 0 .. MaxPos in both directions
MaxPos == 1

\* the RGB and alpha values of the pixels resolved: greys and colours, alpha
\* 0, the smallest and the largest alpha above 0
Rgbs == {<<0, 0, 0>>, <<255, 255, 255>>, <<102, 102, 102>>,
         <<102, 0, 255>>, <<200, 0, 0>>, <<0, 255, 102>>}
Alphas == {0, 1, 255}
ColourPixels == {<<c[1], c[2], c[3], a>> : c \in Rgbs, a \in Alphas}

\* one render: truecolor and transparent are fixed (they are fields of config)
InitColor ==
    /\ NoRender
    /\ rs = NoResize
    /\ sw = NoWriter
    /\ \E tc \in BOOLEAN, tr \in BOOLEAN :
          cl = [NoColour EXCEPT !.pc = "render", !.truecolor = tc, !.transparent = tr]

\* the colour of the next pixel of the render (print, lines 81-93), after
\* the colours of the pixels before it
ResolveColor ==
    /\ cl.pc \in {"render", "done"}
    /\ \E p \in ColourPixels, row \in 0 .. MaxPos, col \in 0 .. MaxPos :
          cl' = [cl EXCEPT !.pc = "done",
                           !.pixel = p, !.row = row, !.col = col,
                           !.color = PixelColor(p, row, col,
                                        [truecolor |-> cl.truecolor,
                                         transparent |-> cl.transparent]),
                           !.prevValid = (cl.pc = "done"),
                           !.prevPixel = cl.pixel, !.prevColor = cl.color]
    /\ UNCHANGED <<rs, sw>>
    /\ UNCHANGED renderVars

NextColor == ResolveColor

SpecColor == InitColor /\ [][NextColor]_vars

RgbOf(pixel) == <<pixel[1], pixel[2], pixel[3]>>

\* C15: the colour of a pixel of alpha 1 .. 255 is a function of its RGB and
\* of truecolor only: with truecolor it is Rgb(r, g, b), without it a palette
\* index, and two pixels of the same RGB resolved one after the other get
\* the same colour whatever their positions and alpha values.
C15_ColourPure ==
    (cl.pc = "done" /\ cl.pixel[4] # 0)
    => /\ cl.truecolor => cl.color = <<"Rgb", cl.pixel[1], cl.pixel[2], cl.pixel[3]>>
       /\ ~cl.truecolor => /\ cl.color[1] = "Ansi256"
                           /\ cl.color[2] \in 16 .. 255
       /\ (cl.prevValid /\ cl.prevPixel[4] # 0 /\ RgbOf(cl.prevPixel) = RgbOf(cl.pixel))
          => cl.color = cl.prevColor

C15_Witness ==
    /\ cl.pc = "done" /\ cl.prevValid
    /\ ~cl.truecolor
    /\ cl.pixel = <<102, 0, 255, 1>> /\ cl.row = 1 /\ cl.col = 0
    /\ cl.prevPixel = <<102, 0, 255, 255>>
    /\ cl.color = cl.prevColor
    /\ cl.color[1] = "Ansi256"

(* ============================= StringWriter ============================ *)
\* bound: at most MaxCalls calls of write, flush and read on one StringWriter
MaxCalls == 4

\* the capacity of the buffer of BufWriter::new (std's default)
BufCapacity == 8192

\* Byte strings are sequences of runs <<pattern, count>>: pattern repeated
\* count times, adjacent runs of different patterns.
ByteA == <<97>>
ByteInvalid == <<128>>
ReplacementChar == <<239, 191, 189>>

AppendRun(runs, run) ==
    IF run[2] = 0 THEN runs
    ELSE IF runs # <<>> /\ runs[Len(runs)][1] = run[1]
         THEN [runs EXCEPT ![Len(runs)] = <<run[1], @[2] + run[2]>>]
         ELSE Append(runs, run)

RECURSIVE Cat(_, _)
\* concatenation of two byte strings
Cat(a, b) == IF b = <<>> THEN a ELSE Cat(AppendRun(a, Head(b)), Tail(b))

RECURSIVE ByteLen(_)
\* number of bytes of a byte string
ByteLen(runs) ==
    IF runs = <<>> THEN 0
    ELSE Len(Head(runs)[1]) * Head(runs)[2] + ByteLen(Tail(runs))

RECURSIVE from_utf8_lossy(_)
\* String::from_utf8_lossy, as the UTF-8 bytes of the String: every byte
\* that is not part of a valid sequence becomes U+FFFD
from_utf8_lossy(runs) ==
    IF runs = <<>> THEN <<>>
    ELSE Cat(<<IF Head(runs)[1] = ByteInvalid
               THEN <<ReplacementChar, Head(runs)[2]>>
               ELSE Head(runs)>>,
             from_utf8_lossy(Tail(runs)))

\* BufWriter<Vec<u8>>::write: the buffer is moved to the Vec when the data
\* does not fit in what is left of it; data of the capacity or more goes to
\* the Vec directly, smaller data into the buffer
BufWriter_write(buf, inner, data) ==
    LET n == ByteLen(data)
        spill == ByteLen(buf) + n > BufCapacity
        buf1 == IF spill THEN <<>> ELSE buf
        inner1 == IF spill THEN Cat(inner, buf) ELSE inner
    IN IF n >= BufCapacity
       THEN [buf |-> buf1, inner |-> Cat(inner1, data)]
       ELSE [buf |-> Cat(buf1, data), inner |-> inner1]

\* BufWriter<Vec<u8>>::flush: the buffer is moved to the Vec
BufWriter_flush(buf, inner) == [buf |-> <<>>, inner |-> Cat(inner, buf)]

\* the arguments of write: valid and invalid UTF-8, short and of the
\* buffer's capacity
WriteData ==
    {<<<<b, n>>>> : b \in {ByteA, ByteInvalid}, n \in {1, BufCapacity - 1, BufCapacity}}

\* StringWriter::new()
InitWriter ==
    /\ NoRender
    /\ rs = NoResize
    /\ cl = NoColour
    /\ sw = [NoWriter EXCEPT !.pc = "live"]

\* <StringWriter as Write>::write
SwWrite ==
    /\ sw.pc = "live"
    /\ sw.calls < MaxCalls
    /\ \E data \in WriteData :
          LET w == BufWriter_write(sw.buf, sw.inner, data)
          IN sw' = [sw EXCEPT !.buf = w.buf, !.inner = w.inner,
                              !.written = Cat(sw.written, data),
                              !.calls = sw.calls + 1]
    /\ UNCHANGED <<rs, cl>>
    /\ UNCHANGED renderVars

\* <StringWriter as Write>::flush
SwFlush ==
    /\ sw.pc = "live"
    /\ sw.calls < MaxCalls
    /\ LET w == BufWriter_flush(sw.buf, sw.inner)
       IN sw' = [sw EXCEPT !.buf = w.buf, !.inner = w.inner, !.calls = sw.calls + 1]
    /\ UNCHANGED <<rs, cl>>
    /\ UNCHANGED renderVars

\* StringWriter::read: the String made of inner_buf.buffer(); the bytes are
\* also written to stderr, which changes nothing of the StringWriter
SwRead ==
    /\ sw.pc = "live"
    /\ sw.calls < MaxCalls
    /\ sw' = [sw EXCEPT !.ret = from_utf8_lossy(sw.buf),
                        !.atRead = sw.written,
                        !.calls = sw.calls + 1,
                        !.reads = sw.reads + 1]
    /\ UNCHANGED <<rs, cl>>
    /\ UNCHANGED renderVars

NextWriter == SwWrite \/ SwFlush \/ SwRead

SpecWriter == InitWriter /\ [][NextWriter]_vars

\* C20 as stated: what read returned is the bytes written to the
\* StringWriter from its creation to that call of read, whatever calls of
\* write, flush and read came before.
C20_AsStated == sw.reads >= 1 => sw.ret = sw.atRead

====
